---------------------------- MODULE Spec2Model ----------------------------
(***************************************************************************)
(* A model of src/src/model/linear.cuh of CPM.cu: the dense projection     *)
(* linear(), the modules Linear and LMHead, the sizes they request from    *)
(* the memory arena, and the split-K reduction of the Marlin kernels the   *)
(* file instantiates.                                                      *)
(*                                                                         *)
(* The module holds several state machines over one set of variables;     *)
(* each specification moves its own variables, the others stay at rest:    *)
(*   GemmSpec    the pure function linear() applied to bounded inputs      *)
(*   Spec        a Linear / LMHead object, the stream and device memory    *)
(*   LoadSpec    the same object loaded under arbitrary tensor names       *)
(*   LayoutSpec  the byte sizes and scratch offsets of a build sequence    *)
(*   SplitSpec   the thread blocks of one split-K kernel launch            *)
(*                                                                         *)
(* Element values are small integers: for them the fp32 accumulation of    *)
(* cublasGemmEx (CUBLAS_COMPUTE_32F) and the rounding to T are exact.      *)
(***************************************************************************)
EXTENDS Integers, Sequences, FiniteSets, TLC

\* ------------------------------------------------------------------ bounds
MaxTokens == 2      \* num_tokens ranges over 1..MaxTokens
MaxDim == 2         \* dim_in and dim_out range over 1..MaxDim

\* ----------------------------------------------------------------- helpers
RECURSIVE SeqSum(_)
SeqSum(s) == IF s = <<>> THEN 0 ELSE Head(s) + SeqSum(Tail(s))

\* Arrays of n elements: the unit arrays and two ramps of distinct values.
Unit(n, p) == [i \in 1..n |-> IF i = p THEN 1 ELSE 0]
Ramp(n, s) == [i \in 1..n |-> s + i]
Arrays(n) == {Unit(n, p) : p \in 1..n} \cup {Ramp(n, 0), Ramp(n, 2)}

\* ------------------------------------------------------------ cublasGemmEx
\* C = alpha * op(A) * op(B) + beta * C on column-major arrays: element (r, c)
\* of a matrix with leading dimension ld is array element r + c*ld (0-based).
\* op(A) is m x k, op(B) is k x n, C is m x n.  With beta = 0, C is not read.
cublasGemmEx(transa, transb, m, n, k, alpha, A, lda, B, ldb, beta, C, ldc) ==
  LET opA(r, l) == IF transa = "T" THEN A[1 + l + r * lda] ELSE A[1 + r + l * lda]
      opB(l, c) == IF transb = "T" THEN B[1 + c + l * ldb] ELSE B[1 + l + c * ldb]
      dot(r, c) == SeqSum([l \in 1..k |-> opA(r, l - 1) * opB(l - 1, c)])
  IN  [idx \in 1..Len(C) |->
         LET r == (idx - 1) % ldc
             c == (idx - 1) \div ldc
         IN  IF r < m /\ c < n
             THEN alpha * dot(r, c) + (IF beta = 0 THEN 0 ELSE beta * C[idx])
             ELSE C[idx]]

\* ------------------------------------------------------------------ linear
\* A plausible slip: the two layouts' calls exchanged.
linear_layouts_swapped(num_tokens, dim_in, dim_out, input, weight, output, transposed, inplace) ==
  LET alpha == 1
      beta == IF inplace THEN 1 ELSE 0
  IN  IF ~transposed
      THEN cublasGemmEx("T", "N", dim_out, num_tokens, dim_in, alpha,
                        weight, dim_in, input, dim_in, beta, output, dim_out)
      ELSE cublasGemmEx("N", "N", dim_out, num_tokens, dim_in, alpha,
                        weight, dim_out, input, dim_in, beta, output, dim_out)

\* linear<T>(stream, num_tokens, dim_in, dim_out, input, weight, output,
\*           transposed, inplace): the array output holds afterwards.
linear(num_tokens, dim_in, dim_out, input, weight, output, transposed, inplace) ==
  LET alpha == 1
      beta == IF inplace THEN 1 ELSE 0
  IN  IF transposed
      THEN cublasGemmEx("T", "N", dim_out, num_tokens, dim_in, alpha,
                        weight, dim_in, input, dim_in, beta, output, dim_out)
      ELSE cublasGemmEx("N", "N", dim_out, num_tokens, dim_in, alpha,
                        weight, dim_out, input, dim_in, beta, output, dim_out)

\* ------------------------------------------------- elementwise helpers
\* batched_add<T>(stream, num_tokens, dim, a, b, c) of elementwise.cuh: the
\* vector b is broadcast-added to every row of a; the array c holds afterwards.
batched_add(num_tokens, dim, a, b, c) ==
  [idx \in 1..Len(c) |->
     IF idx <= num_tokens * dim THEN a[idx] + b[1 + ((idx - 1) % dim)] ELSE c[idx]]

\* elementwise_scale(stream, num_tokens, dim, input, scale, out) of
\* elementwise.cuh: every element of input times scale; the array out holds.
elementwise_scale(num_tokens, dim, input, scale, out) ==
  [idx \in 1..Len(out) |->
     IF idx <= num_tokens * dim THEN input[idx] * scale ELSE out[idx]]

\* The Quantized GEMM Kernel's result C[M,N] = A[M,K] x dequant(B)[K,N], plus
\* the previous C when accumulation is requested; w is dequant(B), row-major.
marlin_gemm(m, k, n, a, w, c, accumulate) ==
  [idx \in 1..Len(c) |->
     IF idx <= m * n
     THEN LET i == (idx - 1) \div n
              j == (idx - 1) % n
          IN  SeqSum([l \in 1..k |-> a[1 + i * k + (l - 1)] * w[1 + (l - 1) * n + j]])
              + (IF accumulate THEN c[idx] ELSE 0)
     ELSE c[idx]]

\* ------------------------------------------------------- names and copies
\* name.find(sub) != std::string::npos, names being sequences of characters.
Contains(name, sub) ==
  \E i \in 0..(Len(name) - Len(sub)) : SubSeq(name, i + 1, i + Len(sub)) = sub

STR_weight == <<"w", "e", "i", "g", "h", "t">>
STR_bias == <<"b", "i", "a", "s">>
Names ==
  { STR_weight, STR_bias,
    <<"q", ".", "w", "e", "i", "g", "h", "t">>,
    <<"b", "i", "a", "s", ".", "w", "e", "i", "g", "h", "t">>,
    <<"o", ".", "b", "i", "a", "s">>,
    <<"s", "c", "a", "l", "e", "s">>,
    <<"b", "i", "a">>,
    <<>> }

\* The first count elements of buf replaced by those of the host array data.
CopyInto(buf, data, count) ==
  [idx \in 1..Len(buf) |-> IF idx <= count THEN data[idx] ELSE buf[idx]]

Fill(n, v) == [i \in 1..n |-> v]
\* What freshly allocated device memory may hold.
Garbage == {7}
\* f with key k bound to v.
Bind(f, k, v) == [x \in DOMAIN f \cup {k} |-> IF x = k THEN v ELSE f[x]]

\* ----------------------------------------------------------- prefill
\* An enqueued operation: its kind, the call that enqueued it, the row count,
\* its operand pointers a, b and its destination c.
Op(op, id, n, a, b, c, inplace, head) ==
  [op |-> op, id |-> id, n |-> n, a |-> a, b |-> b, c |-> c,
   inplace |-> inplace, head |-> head]

\* A plausible slip: the bias add enqueued before the multiply.
Linear_prefill_add_first(id, n, input, tgt, inplace, head, self_output, self_weight, self_bias, self_has_bias) ==
  LET t == IF tgt = "null" THEN self_output ELSE tgt
  IN  (IF self_has_bias
       THEN <<Op("add", id, n, t, self_bias, t, inplace, head)>> ELSE <<>>)
      \o <<Op("gemm", id, n, input, self_weight, t, inplace, head)>>

\* A plausible slip: the dense module launching the quantized kernel.
Linear_prefill_marlin(id, n, input, tgt, inplace, head, self_output, self_weight, self_bias, self_has_bias) ==
  LET t == IF tgt = "null" THEN self_output ELSE tgt
  IN  <<Op("marlin", id, n, input, self_weight, t, inplace, head)>>
      \o (IF self_has_bias
          THEN <<Op("add", id, n, t, self_bias, t, inplace, head)>> ELSE <<>>)

\* Linear::prefill(stream, num_tokens, input, tgt, inplace): the operations it
\* enqueues on the stream, in order.
Linear_prefill(id, n, input, tgt, inplace, head, self_output, self_weight, self_bias, self_has_bias) ==
  LET t == IF tgt = "null" THEN self_output ELSE tgt
  IN  <<Op("gemm", id, n, input, self_weight, t, inplace, head)>>
      \o (IF self_has_bias
          THEN <<Op("add", id, n, t, self_bias, t, inplace, head)>> ELSE <<>>)

\* A plausible slip: the head scaling its input in place.
LMHead_prefill_in_place(id, n, input, tgt, inplace, self_tmp, self_output, self_weight, self_bias, self_has_bias) ==
  <<Op("scale", id, n, input, "scalar", input, inplace, TRUE)>>
  \o Linear_prefill(id, n, input, tgt, inplace, TRUE,
                    self_output, self_weight, self_bias, self_has_bias)

\* LMHead::prefill(stream, num_tokens, input, tgt, inplace)
LMHead_prefill(id, n, input, tgt, inplace, self_tmp, self_output, self_weight, self_bias, self_has_bias) ==
  <<Op("scale", id, n, input, "scalar", self_tmp, inplace, TRUE)>>
  \o Linear_prefill(id, n, self_tmp, tgt, inplace, TRUE,
                    self_output, self_weight, self_bias, self_has_bias)

\* project() of the packed-weight projection: the Quantized GEMM Kernel, then
\* the bias add when the module has a bias.
Quantized_project(id, n, input, tgt, accumulate, self_output, self_weight, self_bias, self_has_bias) ==
  LET t == IF tgt = "null" THEN self_output ELSE tgt
  IN  <<Op("marlin", id, n, input, self_weight, t, accumulate, FALSE)>>
      \o (IF self_has_bias
          THEN <<Op("add", id, n, t, self_bias, t, accumulate, FALSE)>> ELSE <<>>)

\* ------------------------------------------------- fixed-width integers
\* C++ integers as little-endian sequences of bytes: int is 4 bytes, size_t
\* and int64_t are 8.  Arithmetic on len bytes is arithmetic modulo 256^len.
ToBytes(x, len) ==
  [i \in 1..len |-> IF i > 4 THEN 0 ELSE (x \div (256 ^ (i - 1))) % 256]

RECURSIVE Carried(_, _, _)
\* The digits of the column sums cols from position k on, carry coming in.
Carried(cols, k, carry) ==
  IF k > Len(cols) THEN <<>>
  ELSE <<(cols[k] + carry) % 256>> \o Carried(cols, k + 1, (cols[k] + carry) \div 256)

AddBytes(x, y) == Carried([k \in 1..Len(x) |-> x[k] + y[k]], 1, 0)
MulBytes(x, y) ==
  Carried([k \in 1..Len(x) |-> SeqSum([i \in 1..k |-> x[i] * y[k + 1 - i]])], 1, 0)

\* int to size_t: sign extension.
SignExtend(x4) ==
  [i \in 1..8 |-> IF i <= 4 THEN x4[i] ELSE IF x4[4] >= 128 THEN 255 ELSE 0]

RECURSIVE LessFrom(_, _, _)
\* x < y as unsigned numbers, comparing from byte k down.
LessFrom(x, y, k) ==
  IF k = 0 THEN FALSE
  ELSE IF x[k] # y[k] THEN x[k] < y[k]
  ELSE LessFrom(x, y, k - 1)
ULessEq(x, y) == ~LessFrom(y, x, Len(x))
\* x <= y as int64_t values.
SLessEq(x, y) ==
  IF (x[8] >= 128) # (y[8] >= 128) THEN x[8] >= 128 ELSE ULessEq(x, y)

SizeofT == 2        \* sizeof(T), T a 16-bit float (__half, __nv_bfloat16)

\* The int product a * b of two positive ints.  When it passes INT_MAX the
\* signed overflow is undefined: the build yields the wrapped 32-bit product
\* or, having widened the multiply, the exact one.
IntProducts(x, y) ==
  LET wrapped == SignExtend(MulBytes(ToBytes(x, 4), ToBytes(y, 4)))
      exact == MulBytes(ToBytes(x, 8), ToBytes(y, 8))
  IN  IF wrapped = exact THEN {exact} ELSE {wrapped, exact}

\* x * y * sizeof(T) as the code writes it: (x * y) in int, converted to
\* size_t, times sizeof(T) in size_t.
ByteSizes(x, y) == {MulBytes(p, ToBytes(SizeofT, 8)) : p \in IntProducts(x, y)}

\* The mathematical product x * y * sizeof(T), which fits 8 bytes.
ExactBytes(x, y) ==
  MulBytes(MulBytes(ToBytes(x, 8), ToBytes(y, 8)), ToBytes(SizeofT, 8))

\* Memory::allocate(ptr, offset, size): binds *ptr to scratch_base + offset
\* and returns offset + size rounded up to the alignment.
Alignment == 256
RoundUp(x) ==
  IF x[1] = 0 THEN x
  ELSE AddBytes([i \in 1..8 |-> IF i = 1 THEN 0 ELSE x[i]], ToBytes(Alignment, 8))
Memory_allocate(off, size) ==
  [ptr |-> off, next |-> RoundUp(AddBytes(off, size))]

\* ------------------------------------------------------------------- state
VARIABLES
  \* GemmSpec: one call of linear()
  linArgs,          \* the arguments of the call
  linOut,           \* the output array after the call (<<>> before it)
  linCalled         \* whether linear() has returned

VARIABLES
  \* Spec: one projection object, the stream it is given, device memory
  kind,             \* "Linear", "LMHead", or "Quantized" (packed weights)
  dim_in, dim_out, transposed, has_bias,      \* Linear's fields, set at construction
  head_scale,       \* LMHead::head_scale
  output, weight, bias, tmp_hidden_size,      \* the pointer fields
  mem,              \* device memory: allocated buffer |-> its elements
  queue,            \* the stream: operations enqueued and not yet executed
  completed,        \* the operation the device executed last
  num_tokens,       \* the token count of the pass the scratch layout is for
  calls,            \* number of prefill calls made
  lastCall,         \* the operations the last prefill call enqueued, in order
  lastCopy,         \* the last cudaMemcpy of load_to_storage: pointer and count
  thrown            \* whether the last load_to_storage threw

VARIABLES
  \* LayoutSpec: the scratch layout of one build sequence
  offset,           \* the int64_t offset the caller threads through the calls
  regions,          \* the scratch regions bound to pointer slots so far
  requests          \* the byte sizes the last call requested or copied

VARIABLES
  \* SplitSpec: one launch of a split-K kernel
  split_factor,     \* the split factor the kernel was instantiated for
  locks,            \* the Lock Array: one counter per output tile
  workspace,        \* the Split-K Workspace: one accumulator per output tile
  C,                \* the output, per tile
  pc,               \* where each thread block is
  acc,              \* what each block read from the workspace
  combined,         \* per tile, the slices folded into the workspace, in order
  writeouts         \* per tile, the slices whose block wrote C, in order

gemmVars == <<linArgs, linOut, linCalled>>
layoutVars == <<offset, regions, requests>>
splitVars == <<split_factor, locks, workspace, C, pc, acc, combined, writeouts>>
objVars == <<kind, dim_in, dim_out, transposed, has_bias, head_scale,
             output, weight, bias, tmp_hidden_size, mem, queue, completed,
             num_tokens, calls, lastCall, lastCopy, thrown>>
vars == <<gemmVars, objVars, layoutVars, splitVars>>

\* ---------------------------------------------------------------- at rest
ObjIdle ==
  /\ kind = "Linear" /\ dim_in = 1 /\ dim_out = 1
  /\ transposed = TRUE /\ has_bias = FALSE /\ head_scale = 1
  /\ output = "uninit" /\ weight = "uninit" /\ bias = "uninit"
  /\ tmp_hidden_size = "uninit"
  /\ mem = <<>> /\ queue = <<>> /\ completed = <<>>
  /\ num_tokens = 0 /\ calls = 0
  /\ lastCall = <<>> /\ lastCopy = <<>> /\ thrown = FALSE

LayoutIdle == offset = <<>> /\ regions = <<>> /\ requests = {}
SplitIdle ==
  /\ split_factor = 0 /\ locks = <<>> /\ workspace = <<>> /\ C = <<>>
  /\ pc = <<>> /\ acc = <<>> /\ combined = <<>> /\ writeouts = <<>>

\* ---------------------------------------------------------------- GemmSpec
GemmIdle == linArgs = <<>> /\ linOut = <<>> /\ linCalled = FALSE

GemmInit ==
  /\ ObjIdle /\ LayoutIdle /\ SplitIdle
  /\ \E nt \in 1..MaxTokens, di \in 1..MaxDim, do \in 1..MaxDim,
        tr \in BOOLEAN, ip \in BOOLEAN :
       \E inp \in Arrays(nt * di), w \in Arrays(di * do), out \in Arrays(nt * do) :
         linArgs = [num_tokens |-> nt, dim_in |-> di, dim_out |-> do,
                    input |-> inp, weight |-> w, output |-> out,
                    transposed |-> tr, inplace |-> ip]
  /\ linOut = <<>>
  /\ linCalled = FALSE

CallLinear ==
  /\ ~linCalled
  /\ linOut' = linear(linArgs.num_tokens, linArgs.dim_in, linArgs.dim_out,
                      linArgs.input, linArgs.weight, linArgs.output,
                      linArgs.transposed, linArgs.inplace)
  /\ linCalled' = TRUE
  /\ UNCHANGED <<linArgs, objVars, layoutVars, splitVars>>

GemmNext == CallLinear

GemmSpec == GemmInit /\ [][GemmNext]_vars

\* C5: after linear(), output[i][j] = base + sum over k < dim_in of
\* input[i][k] * w(k, j) for every i < num_tokens and j < dim_out, where
\* w(k, j) = weight[j*dim_in + k] when transposed and weight[k*dim_out + j]
\* otherwise, and base is the previous output[i][j] when inplace and 0 when not.
C5_W(k, j) ==
  IF linArgs.transposed THEN linArgs.weight[1 + j * linArgs.dim_in + k]
                        ELSE linArgs.weight[1 + k * linArgs.dim_out + j]
C5_Expected(i, j) ==
  (IF linArgs.inplace THEN linArgs.output[1 + i * linArgs.dim_out + j] ELSE 0)
  + SeqSum([k \in 1..linArgs.dim_in |->
              linArgs.input[1 + i * linArgs.dim_in + (k - 1)] * C5_W(k - 1, j)])
C5_DenseResult ==
  linCalled =>
    /\ Len(linOut) = linArgs.num_tokens * linArgs.dim_out
    /\ \A i \in 0..(linArgs.num_tokens - 1), j \in 0..(linArgs.dim_out - 1) :
         linOut[1 + i * linArgs.dim_out + j] = C5_Expected(i, j)
C5_Witness ==
  /\ linCalled
  /\ linArgs.num_tokens = 2 /\ linArgs.dim_in = 2 /\ linArgs.dim_out = 1
  /\ linArgs.inplace /\ linArgs.transposed
  /\ linArgs.input = Ramp(4, 0) /\ linArgs.weight = Ramp(2, 2)
  /\ linOut # linArgs.output

\* -------------------------------------------------------------------- Spec
\* One projection object through its life: construction (Init), the build
\* calls init_weight_ptr, init_output_ptr and load_to_storage, then the
\* prefill calls of a pass, which enqueue operations the device executes in
\* stream order.  The build calls come before the first prefill (weights and
\* offsets are fixed at model build); load_to_storage and prefill come after
\* init_weight_ptr; a pass runs with the token count its layout was made for.
MaxCalls == 2       \* prefill calls per behaviour
HeadScales == {3}
HostData == {Ramp(MaxDim * MaxDim, 10), Ramp(MaxDim * MaxDim, 20)}
InputData == Ramp(MaxTokens * dim_in, 0)
NoOp == [op |-> "none", id |-> 0, n |-> 0, a |-> "none", b |-> "none",
         c |-> "none", inplace |-> FALSE, head |-> FALSE]

\* Construction.  A Linear or an LMHead owns nothing yet: its pointer fields
\* are uninitialized.  The caller owns an input buffer IN and a target buffer
\* TGT.  The packed-weight projection is taken as built: its code is not in
\* this file.
Init ==
  /\ GemmIdle /\ LayoutIdle /\ SplitIdle
  /\ kind \in {"Linear", "LMHead", "Quantized"}
  /\ dim_in \in 1..MaxDim
  /\ dim_out \in 1..MaxDim
  /\ transposed \in (IF kind = "Quantized" THEN {FALSE} ELSE BOOLEAN)
  /\ has_bias \in BOOLEAN
  /\ head_scale \in (IF kind = "LMHead" THEN HeadScales ELSE {1})
  /\ tmp_hidden_size = "uninit"
  /\ weight = (IF kind = "Quantized" THEN "W" ELSE "uninit")
  /\ bias = (IF kind = "Quantized" /\ has_bias THEN "B" ELSE "uninit")
  /\ output = (IF kind = "Quantized" THEN "OUT" ELSE "uninit")
  /\ num_tokens \in (IF kind = "Quantized" THEN 1..MaxTokens ELSE {0})
  /\ \E g \in Garbage :
       LET caller == [b \in {"IN", "TGT"} |->
                        IF b = "IN" THEN InputData
                                    ELSE Fill(MaxTokens * dim_out, g)]
           built == Bind(Bind(caller, "W", Ramp(dim_in * dim_out, 1)),
                         "OUT", Fill(num_tokens * dim_out, g))
       IN  mem = (IF kind # "Quantized" THEN caller
                  ELSE IF has_bias THEN Bind(built, "B", Ramp(dim_out, 4))
                  ELSE built)
  /\ queue = <<>>
  /\ completed = NoOp
  /\ calls = 0
  /\ lastCall = <<>>
  /\ lastCopy = [dst |-> "none", count |-> 0]
  /\ thrown = FALSE

\* Linear::init_weight_ptr: allocate_for_model returns a fresh persistent
\* buffer; the bias pointer is assigned only when has_bias.
init_weight_ptr ==
  /\ kind # "Quantized"
  /\ calls = 0
  /\ weight = "uninit"
  /\ weight' = "W"
  /\ bias' = (IF has_bias THEN "B" ELSE bias)
  /\ \E g \in Garbage :
       LET withW == Bind(mem, "W", Fill(dim_in * dim_out, g))
       IN  mem' = (IF has_bias THEN Bind(withW, "B", Fill(dim_out, g)) ELSE withW)
  /\ UNCHANGED <<kind, dim_in, dim_out, transposed, has_bias, head_scale, output,
                 tmp_hidden_size, queue, completed, num_tokens, calls, lastCall,
                 lastCopy, thrown, gemmVars, layoutVars, splitVars>>

\* Linear::init_output_ptr(memory, num_tokens, offset): binds output to a
\* scratch region of num_tokens * dim_out elements.
Linear_init_output_ptr(nt) ==
  /\ kind = "Linear"
  /\ calls = 0
  /\ output' = "OUT"
  /\ num_tokens' = nt
  /\ \E g \in Garbage : mem' = Bind(mem, "OUT", Fill(nt * dim_out, g))
  /\ UNCHANGED <<kind, dim_in, dim_out, transposed, has_bias, head_scale, weight,
                 bias, tmp_hidden_size, queue, completed, calls, lastCall,
                 lastCopy, thrown, gemmVars, layoutVars, splitVars>>

\* LMHead::init_output_ptr: Linear's, then the temporary of
\* num_tokens * dim_in elements.
LMHead_init_output_ptr(nt) ==
  /\ kind = "LMHead"
  /\ calls = 0
  /\ output' = "OUT"
  /\ tmp_hidden_size' = "TMP"
  /\ num_tokens' = nt
  /\ \E g \in Garbage :
       mem' = Bind(Bind(mem, "OUT", Fill(nt * dim_out, g)),
                   "TMP", Fill(nt * dim_in, g))
  /\ UNCHANGED <<kind, dim_in, dim_out, transposed, has_bias, head_scale, weight,
                 bias, queue, completed, calls, lastCall, lastCopy, thrown,
                 gemmVars, layoutVars, splitVars>>

\* cudaMemcpy(dst, data, count * sizeof(T), cudaMemcpyHostToDevice).  Through
\* an uninitialized pointer the copy is undefined: it fails (the return value
\* is not looked at) or lands on whatever allocation the stale bits address.
cudaMemcpy(dst, data, count) ==
  /\ lastCopy' = [dst |-> dst, count |-> count]
  /\ IF dst # "uninit"
     THEN mem' = [mem EXCEPT ![dst] = CopyInto(@, data, count)]
     ELSE \E t \in {"fault"} \cup DOMAIN mem :
            mem' = (IF t = "fault" THEN mem
                    ELSE [mem EXCEPT ![t] = CopyInto(@, data, count)])

\* Linear::load_to_storage(name, ptr)
load_to_storage(name, data) ==
  /\ kind # "Quantized"
  /\ calls = 0
  /\ weight # "uninit"
  /\ IF Contains(name, STR_weight)
     THEN cudaMemcpy(weight, data, dim_in * dim_out) /\ thrown' = FALSE
     ELSE IF Contains(name, STR_bias)
     THEN cudaMemcpy(bias, data, dim_out) /\ thrown' = FALSE
     ELSE thrown' = TRUE /\ UNCHANGED <<mem, lastCopy>>
  /\ UNCHANGED <<kind, dim_in, dim_out, transposed, has_bias, head_scale, output,
                 weight, bias, tmp_hidden_size, queue, completed, num_tokens,
                 calls, lastCall, gemmVars, layoutVars, splitVars>>

\* The stream enqueues the operations of one call, for the pass's token count;
\* what the caller hands in as tgt must hold the rows.
Enqueue(ops) ==
  /\ calls < MaxCalls
  /\ weight # "uninit"
  /\ num_tokens > 0
  /\ \A p \in 1..Len(ops) : ops[p].c \in DOMAIN mem
  /\ num_tokens * dim_out <= Len(mem[ops[Len(ops)].c])
  /\ queue' = queue \o ops
  /\ lastCall' = ops
  /\ calls' = calls + 1
  /\ UNCHANGED <<kind, dim_in, dim_out, transposed, has_bias, head_scale, output,
                 weight, bias, tmp_hidden_size, mem, completed, num_tokens,
                 lastCopy, thrown, gemmVars, layoutVars, splitVars>>

\* A prefill call on a Linear.  cublasGemmEx needs its output apart from its
\* operands, so the caller's tgt is not the input buffer.
CallLinearPrefill(tgt, inplace) ==
  /\ kind = "Linear"
  /\ Enqueue(Linear_prefill(calls + 1, num_tokens, "IN", tgt, inplace, FALSE,
                            output, weight, bias, has_bias))

\* A prefill call on an LMHead.  The projection reads the temporary, so tgt
\* may be any buffer of the caller's that holds the rows, the input included.
CallLMHeadPrefill(tgt, inplace) ==
  /\ kind = "LMHead"
  /\ Enqueue(LMHead_prefill(calls + 1, num_tokens, "IN", tgt, inplace,
                            tmp_hidden_size, output, weight, bias, has_bias))

\* A project call on the packed-weight projection.
CallQuantizedProject(tgt, accumulate) ==
  /\ kind = "Quantized"
  /\ Enqueue(Quantized_project(calls + 1, num_tokens, "IN", tgt, accumulate,
                               output, weight, bias, has_bias))

\* The device executes the operation at the head of the stream.
Execute ==
  /\ queue # <<>>
  /\ LET o == Head(queue)
         r == CASE o.op = "gemm" ->
                     linear(o.n, dim_in, dim_out, mem[o.a], mem[o.b], mem[o.c],
                            transposed, o.inplace)
                [] o.op = "marlin" ->
                     marlin_gemm(o.n, dim_in, dim_out, mem[o.a], mem[o.b], mem[o.c],
                                 o.inplace)
                [] o.op = "add" ->
                     batched_add(o.n, dim_out, mem[o.a], mem[o.b], mem[o.c])
                [] o.op = "scale" ->
                     elementwise_scale(o.n, dim_in, mem[o.a], head_scale, mem[o.c])
     IN  /\ mem' = [mem EXCEPT ![o.c] = r]
         /\ completed' = o
  /\ queue' = Tail(queue)
  /\ UNCHANGED <<kind, dim_in, dim_out, transposed, has_bias, head_scale, output,
                 weight, bias, tmp_hidden_size, num_tokens, calls, lastCall,
                 lastCopy, thrown, gemmVars, layoutVars, splitVars>>

\* The tensors a checkpoint holds for this module: a weight, and a bias when
\* the module has one.
CheckpointNames == IF has_bias THEN {STR_weight, STR_bias} ELSE {STR_weight}
CheckpointTensor(name) ==
  IF name = STR_weight THEN Ramp(MaxDim * MaxDim, 10) ELSE Ramp(MaxDim * MaxDim, 20)

Next ==
  \/ init_weight_ptr
  \/ \E nt \in 1..MaxTokens : Linear_init_output_ptr(nt)
  \/ \E nt \in 1..MaxTokens : LMHead_init_output_ptr(nt)
  \/ \E name \in CheckpointNames : load_to_storage(name, CheckpointTensor(name))
  \/ \E tgt \in {"null", "TGT"}, inplace \in BOOLEAN : CallLinearPrefill(tgt, inplace)
  \/ \E tgt \in {"null", "TGT", "IN"}, inplace \in BOOLEAN : CallLMHeadPrefill(tgt, inplace)
  \/ \E tgt \in {"null", "TGT"}, accumulate \in BOOLEAN : CallQuantizedProject(tgt, accumulate)
  \/ Execute

Spec == Init /\ [][Next]_vars

\* ---------------------------------------------------------------- LoadSpec
\* The same object with load_to_storage called under any name with any host
\* data.  The device is not run: what is settled here is which pointers the
\* host calls pass on.
LoadInit == Init /\ kind # "Quantized"

LoadNext ==
  \/ init_weight_ptr
  \/ \E nt \in 1..MaxTokens : Linear_init_output_ptr(nt)
  \/ \E nt \in 1..MaxTokens : LMHead_init_output_ptr(nt)
  \/ \E name \in Names, data \in HostData : load_to_storage(name, data)
  \/ \E tgt \in {"null", "TGT"}, inplace \in BOOLEAN : CallLinearPrefill(tgt, inplace)
  \/ \E tgt \in {"null", "TGT", "IN"}, inplace \in BOOLEAN : CallLMHeadPrefill(tgt, inplace)

LoadSpec == LoadInit /\ [][LoadNext]_vars
\* ------------------------------------------------------ claims under Spec
\* The operation before position p of the stream: the one enqueued just
\* before it, which the device has executed last when p is the head.
Before(p) == IF p = 1 THEN completed ELSE queue[p - 1]
InFlight == {queue[p] : p \in 1..Len(queue)} \cup {completed}
\* The activation Linear::prefill multiplies: the caller's input, or the
\* head's temporary.
LinearInput == IF kind = "LMHead" THEN tmp_hidden_size ELSE "IN"
WeightAt(k, j) ==
  IF transposed THEN mem[weight][1 + j * dim_in + k]
                ELSE mem[weight][1 + k * dim_out + j]
Product(i, j) ==
  SeqSum([k \in 1..dim_in |->
            mem[LinearInput][1 + i * dim_in + (k - 1)] * WeightAt(k - 1, j)])

\* C1: in Linear::prefill with has_bias the bias add is enqueued right after
\* the multiply of the same call, on the same stream and never before it;
\* once the add of a call with inplace = false has completed,
\* output[i][j] = (A.W^T)[i][j] + bias[j] for all i < num_tokens, j < dim_out;
\* without has_bias no bias add is enqueued at all.
C1_BiasAddFollowsMultiply ==
  kind # "Quantized" =>
    /\ \A p \in 1..Len(queue) :
         queue[p].op = "add" =>
           /\ has_bias
           /\ Before(p).op = "gemm" /\ Before(p).id = queue[p].id
           /\ Before(p).c = queue[p].c
    /\ \A p \in 1..(Len(queue) + 1) :
         (has_bias /\ Before(p).op = "gemm") =>
           /\ p <= Len(queue)
           /\ queue[p].op = "add" /\ queue[p].id = Before(p).id
           /\ queue[p].b = bias
    /\ ~has_bias => \A o \in InFlight : o.op # "add"
    /\ (completed.op = "add" /\ ~completed.inplace) =>
         \A i \in 0..(completed.n - 1), j \in 0..(dim_out - 1) :
           mem[completed.c][1 + i * dim_out + j] = Product(i, j) + mem[bias][1 + j]
C1_Witness ==
  /\ kind = "Linear" /\ has_bias /\ dim_in = 2 /\ dim_out = 2 /\ num_tokens = 2
  /\ completed.op = "add" /\ ~completed.inplace /\ completed.id = 2
  /\ mem["W"] = Ramp(4, 10) /\ mem["B"] = Ramp(2, 20)

\* C6 as stated: LMHead::prefill enqueues the rescale of all
\* num_tokens * dim_in input elements by head_scale into the temporary first
\* and the projection right after it; the projection reads the temporary and
\* never the original input; no step of the head's prefill writes the
\* caller's input buffer.
C6_ScaleThenProject ==
  /\ \A p \in 1..Len(queue) :
       (queue[p].head /\ queue[p].op = "gemm") =>
         /\ Before(p).op = "scale" /\ Before(p).id = queue[p].id
         /\ queue[p].a = tmp_hidden_size /\ queue[p].a # "IN"
  /\ \A p \in 1..(Len(queue) + 1) :
       Before(p).op = "scale" =>
         /\ p <= Len(queue)
         /\ queue[p].op = "gemm" /\ queue[p].id = Before(p).id
  /\ \A o \in InFlight :
       o.op = "scale" =>
         /\ o.a = "IN" /\ o.c = tmp_hidden_size /\ o.c # "IN"
         /\ o.n = num_tokens
  /\ completed.op = "scale" =>
       \A e \in 1..(num_tokens * dim_in) :
         mem[tmp_hidden_size][e] = head_scale * mem["IN"][e]
C6_InputNeverWritten ==
  /\ C6_ScaleThenProject
  /\ kind = "LMHead" => mem["IN"] = InputData

\* C6 as amended: the rescale goes first, into the temporary, and the
\* projection reads the temporary; the rescale never writes the caller's input
\* buffer, and a step of the projection writes it only when the caller passed
\* that buffer itself as tgt.
C6_InputWrittenOnlyAsTarget ==
  /\ [](C6_ScaleThenProject)
  /\ [][(kind = "LMHead" /\ queue # <<>> /\ queue' = Tail(queue)
         /\ Head(queue).c # "IN") => mem'["IN"] = mem["IN"]]_vars
  /\ [](kind = "LMHead" =>
          \A p \in 1..Len(lastCall) :
            lastCall[p].c = "IN" =>
              /\ lastCall[p].op \in {"gemm", "add"}
              /\ lastCall[Len(lastCall)].c = "IN")
C6_Witness ==
  /\ kind = "LMHead" /\ dim_in = 2 /\ num_tokens = 2 /\ calls = 2
  /\ completed.op = "gemm" /\ completed.head /\ completed.c = "OUT"
  /\ mem["TMP"] = [e \in 1..4 |-> 3 * e]
  /\ mem["IN"] = InputData

\* C7: every project call takes exactly one compute path: the Quantized GEMM
\* Kernel when W is stored quantized, the dense matmul otherwise.
ComputeOps == {"gemm", "marlin"}
C2_Post(name, data) ==
  IF Contains(name, STR_weight)
  THEN /\ ~thrown'
       /\ \A e \in 1..(dim_in * dim_out) : mem'["W"][e] = data[e]
  ELSE IF Contains(name, STR_bias)
  THEN /\ ~thrown'
       /\ "B" \in DOMAIN mem'
       /\ \A e \in 1..dim_out : mem'["B"][e] = data[e]
  ELSE thrown' /\ mem' = mem
C2_LoadByName ==
  [][\A name \in Names, data \in HostData :
       load_to_storage(name, data) => C2_Post(name, data)]_vars

\* C9: once init_weight_ptr has been called, every load_to_storage that does
\* not throw copies through a pointer init_weight_ptr bound, to the weight
\* buffer of dim_in * dim_out elements or the bias buffer of dim_out elements,
\* and every prefill passes on only such pointers; nothing is copied through a
\* bias pointer that was never allocated.
C9_OnlyBoundPointers ==
  weight # "uninit" =>
    /\ lastCopy.dst # "none" =>
         \/ /\ lastCopy.dst = "W" /\ weight = "W"
            /\ lastCopy.count = dim_in * dim_out
            /\ Len(mem["W"]) = dim_in * dim_out
         \/ /\ lastCopy.dst = "B" /\ bias = "B" /\ "B" \in DOMAIN mem
            /\ lastCopy.count = dim_out
            /\ Len(mem["B"]) = dim_out
    /\ \A p \in 1..Len(queue) :
         /\ queue[p].op = "gemm" => queue[p].b = "W"
         /\ queue[p].op = "add" => queue[p].b = "B" /\ "B" \in DOMAIN mem
\* --------------------------------------------------------------- LayoutSpec
\* The byte sizes the code computes and the scratch layout they give.  A build
\* sequence makes one module per call and threads the returned offset on.
MaxRegions == 2
Dims == {1, 3, 128, 65536, 131072}      \* dim_in, dim_out of the modules built
TokenCounts == {1, 2, 32768}      \* num_tokens of the passes laid out
StartOffsets == {ToBytes(0, 8), ToBytes(100, 8)}

Request(site, x, y, bytes) == [site |-> site, x |-> x, y |-> y, bytes |-> bytes]
Region(slot, ptr, passed, rows, cols) ==
  [slot |-> slot, ptr |-> ptr, passed |-> passed, rows |-> rows, cols |-> cols]

LayoutInit ==
  /\ GemmIdle /\ ObjIdle /\ SplitIdle
  /\ offset \in StartOffsets
  /\ regions = <<>>
  /\ requests = {}

\* Linear::init_weight_ptr: the sizes handed to allocate_for_model.  The bias
\* size dim_out * sizeof(T) is one int widened before the multiply.  Weights
\* are placed and loaded when the model is built, before a pass is laid out.
init_weight_ptr_sizes(di, do, hb) ==
  /\ regions = <<>>
  /\ \E sz \in ByteSizes(di, do) :
       requests' = {Request("init_weight_ptr: weight", di, do, sz)}
                   \cup (IF hb THEN {Request("init_weight_ptr: bias", do, 1, ExactBytes(do, 1))}
                         ELSE {})
  /\ UNCHANGED <<offset, regions, gemmVars, objVars, splitVars>>

\* Linear::load_to_storage, weight branch: the count handed to cudaMemcpy.
load_to_storage_sizes(di, do) ==
  /\ regions = <<>>
  /\ \E sz \in ByteSizes(di, do) :
       requests' = {Request("load_to_storage: weight", di, do, sz)}
  /\ UNCHANGED <<offset, regions, gemmVars, objVars, splitVars>>

\* Linear::init_output_ptr(memory, num_tokens, offset) of a module with
\* dim_out = do; the caller keeps the returned offset.
Linear_init_output_ptr_at(nt, do) ==
  /\ Len(regions) + 1 <= MaxRegions
  /\ \E sz \in ByteSizes(nt, do) :
       LET a == Memory_allocate(offset, sz)
       IN  /\ regions' = Append(regions, Region("output", a.ptr, offset, nt, do))
           /\ offset' = a.next
           /\ requests' = {Request("Linear::init_output_ptr", nt, do, sz)}
  /\ UNCHANGED <<gemmVars, objVars, splitVars>>

\* LMHead::init_output_ptr: the wrapped call, then the temporary buffer at the
\* offset that call returned.
LMHead_init_output_ptr_at(nt, di, do) ==
  /\ Len(regions) + 2 <= MaxRegions
  /\ \E sz1 \in ByteSizes(nt, do), sz2 \in ByteSizes(nt, di) :
       LET a == Memory_allocate(offset, sz1)
           b == Memory_allocate(a.next, sz2)
       IN  /\ regions' = regions \o <<Region("output", a.ptr, offset, nt, do),
                                      Region("tmp_hidden_size", b.ptr, a.next, nt, di)>>
           /\ offset' = b.next
           /\ requests' = {Request("Linear::init_output_ptr", nt, do, sz1),
                           Request("LMHead::init_output_ptr", nt, di, sz2)}
  /\ UNCHANGED <<gemmVars, objVars, splitVars>>

LayoutNext ==
  \/ \E di \in Dims, do \in Dims, hb \in BOOLEAN : init_weight_ptr_sizes(di, do, hb)
  \/ \E di \in Dims, do \in Dims : load_to_storage_sizes(di, do)
  \/ \E nt \in TokenCounts, do \in Dims : Linear_init_output_ptr_at(nt, do)
  \/ \E nt \in TokenCounts, di \in Dims, do \in Dims : LMHead_init_output_ptr_at(nt, di, do)

LayoutSpec == LayoutInit /\ [][LayoutNext]_vars

\* The end of a region holding rows * cols elements of T.
RegionEnd(r) == AddBytes(r.ptr, ExactBytes(r.rows, r.cols))

\* C10: every byte size requested or copied is the exact mathematical product
\* of the two dimensions and sizeof(T), with no wrap-around of the int product.
C10_ExactByteSizes ==
  \A r \in requests : r.bytes = ExactBytes(r.x, r.y)

\* C4: along a build sequence that threads the returned offset, the regions
\* bound so far are pairwise disjoint, each starts at scratch_base + the offset
\* passed to its allocation, and the offset returned last is not below the end
\* of any of them.
C4_RegionsDisjoint ==
  /\ \A i \in DOMAIN regions : regions[i].ptr = regions[i].passed
  /\ \A i \in DOMAIN regions : \A j \in DOMAIN regions :
       i < j => \/ ULessEq(RegionEnd(regions[i]), regions[j].ptr)
                \/ ULessEq(RegionEnd(regions[j]), regions[i].ptr)
  /\ \A i \in DOMAIN regions : SLessEq(RegionEnd(regions[i]), offset)

\* ---------------------------------------------------------------- SplitSpec
\* One launch of a split-K kernel: for every output tile, split_factor thread
\* blocks, one per K-slice, reduce their partial sums through the Split-K
\* Workspace under the tile's Lock Array counter.  The kernel body is not in
\* linear.cuh, which only instantiates it; it is modelled as specified.
NumTiles == 2
SplitFactors == {1, 2, 3, 4}     \* MARLIN_INST_ALL_SPLITS
Tiles == 1..NumTiles
AllBlocks == Tiles \X {s - 1 : s \in SplitFactors}
Grid == Tiles \X (0 .. split_factor - 1)      \* the blocks launched: <<tile, slice>>
Stale == 1000                    \* what the workspace and C hold before the launch

\* The partial sum of a block: distinct weights, so that a sum tells which
\* slices it holds and how often.
Partial(t, i) == t * (5 ^ i)
RECURSIVE SumPartials(_, _)
SumPartials(t, slices) ==
  IF slices = <<>> THEN 0
  ELSE Partial(t, Head(slices)) + SumPartials(t, Tail(slices))
Count(slices, i) == Cardinality({k \in DOMAIN slices : slices[k] = i})

\* A plausible slip: no block waits for its turn.
Turn_unguarded(counter, i) == TRUE
\* The spin-wait's exit condition: the counter names this block's slice.
Turn(counter, i) == counter = i

\* A plausible slip: the release leaves the counter alone.
Released_unchanged(counter) == counter
\* The counter after a block's release.
Released(counter) == counter + 1

SplitInit ==
  /\ GemmIdle /\ ObjIdle /\ LayoutIdle
  /\ split_factor \in SplitFactors
  /\ locks = [t \in Tiles |-> 0]
  /\ workspace = [t \in Tiles |-> Stale]
  /\ C = [t \in Tiles |-> Stale]
  /\ pc = [b \in Grid |-> "compute"]
  /\ acc = [b \in Grid |-> 0]
  /\ combined = [t \in Tiles |-> <<>>]
  /\ writeouts = [t \in Tiles |-> <<>>]

\* The block has multiplied its K-slice; with split factor 1 it goes straight
\* to the write-out.
Compute(b) ==
  /\ b \in Grid /\ pc[b] = "compute"
  /\ pc' = [pc EXCEPT ![b] = IF split_factor = 1 THEN "writeout" ELSE "acquire"]
  /\ UNCHANGED <<split_factor, locks, workspace, C, acc, combined, writeouts>>
  /\ UNCHANGED <<gemmVars, objVars, layoutVars>>

\* The spin-wait on the tile's counter ends.
Acquire(b) ==
  /\ b \in Grid /\ pc[b] = "acquire"
  /\ Turn(locks[b[1]], b[2])
  /\ pc' = [pc EXCEPT ![b] = "read"]
  /\ UNCHANGED <<split_factor, locks, workspace, C, acc, combined, writeouts>>
  /\ UNCHANGED <<gemmVars, objVars, layoutVars>>

\* Read: the first contributor (counter 0) takes nothing from the workspace,
\* the others take what it holds.
ReadWorkspace(b) ==
  /\ b \in Grid /\ pc[b] = "read"
  /\ acc' = [acc EXCEPT ![b] = IF locks[b[1]] = 0 THEN 0 ELSE workspace[b[1]]]
  /\ pc' = [pc EXCEPT ![b] = "write"]
  /\ UNCHANGED <<split_factor, locks, workspace, C, combined, writeouts>>
  /\ UNCHANGED <<gemmVars, objVars, layoutVars>>

\* Accumulate and write back.
WriteWorkspace(b) ==
  /\ b \in Grid /\ pc[b] = "write"
  /\ workspace' = [workspace EXCEPT ![b[1]] = acc[b] + Partial(b[1], b[2])]
  /\ combined' = [combined EXCEPT ![b[1]] = Append(@, b[2])]
  /\ pc' = [pc EXCEPT ![b] = "release"]
  /\ UNCHANGED <<split_factor, locks, C, acc, writeouts>>
  /\ UNCHANGED <<gemmVars, objVars, layoutVars>>

\* Release: one atomic increment; the block whose increment brings the
\* counter to the split factor is the last contributor.
Release(b) ==
  /\ b \in Grid /\ pc[b] = "release"
  /\ locks' = [locks EXCEPT ![b[1]] = Released(@)]
  /\ pc' = [pc EXCEPT ![b] = IF Released(locks[b[1]]) = split_factor
                             THEN "writeout" ELSE "done"]
  /\ UNCHANGED <<split_factor, workspace, C, acc, combined, writeouts>>
  /\ UNCHANGED <<gemmVars, objVars, layoutVars>>

\* The final write-out to C: the block's own sum with split factor 1, the
\* reduced sum otherwise.
WriteOut(b) ==
  /\ b \in Grid /\ pc[b] = "writeout"
  /\ C' = [C EXCEPT ![b[1]] = IF split_factor = 1 THEN Partial(b[1], b[2])
                              ELSE workspace[b[1]]]
  /\ writeouts' = [writeouts EXCEPT ![b[1]] = Append(@, b[2])]
  /\ pc' = [pc EXCEPT ![b] = "done"]
  /\ UNCHANGED <<split_factor, locks, workspace, acc, combined>>
  /\ UNCHANGED <<gemmVars, objVars, layoutVars>>

Step(b) ==
  \/ Compute(b)
  \/ Acquire(b)
  \/ ReadWorkspace(b)
  \/ WriteWorkspace(b)
  \/ Release(b)
  \/ WriteOut(b)

SplitNext == \E b \in AllBlocks : Step(b)

\* Every launched block is scheduled again and again (all blocks of the grid
\* are resident).
SplitSpec ==
  SplitInit /\ [][SplitNext]_vars /\ \A b \in AllBlocks : WF_vars(Step(b))

AllDone == \A b \in Grid : pc[b] = "done"
Slices == 0 .. split_factor - 1

\* C3: with split factor 2, 3 or 4 and the blocks of a tile interleaved in any
\* way, each block's partial sum is folded in exactly once (not twice at any
\* time, and once as soon as the block is past its combine step), C is written
\* by one block only, the last contributor, whose release brought the tile's
\* counter to the split factor, and C then holds the sum of all partial sums.
C3_CombinedExactlyOnce ==
  split_factor > 1 =>
    \A t \in Tiles :
      /\ \A i \in Slices : Count(combined[t], i) <= 1
      /\ \A i \in Slices :
           pc[<<t, i>>] \in {"release", "writeout", "done"} => Count(combined[t], i) = 1
      /\ combined[t] # <<>> => workspace[t] = SumPartials(t, combined[t])
      /\ Len(writeouts[t]) <= 1
      /\ writeouts[t] # <<>> =>
           /\ locks[t] = split_factor
           /\ Len(combined[t]) = split_factor
           /\ writeouts[t][1] = combined[t][Len(combined[t])]
           /\ C[t] = SumPartials(t, [k \in 1..split_factor |-> k - 1])
      /\ (\A i \in Slices : pc[<<t, i>>] = "done") => Len(writeouts[t]) = 1

C3_Witness ==
  /\ split_factor = 4
  /\ AllDone
  /\ \A t \in Tiles : Len(writeouts[t]) = 1 /\ C[t] = t * (1 + 5 + 25 + 125)

\* C8: with exactly split_factor blocks launched per tile and the blocks
\* scheduled fairly, every spin-wait ends and all blocks finish; with split
\* factor 1 no block ever waits on the Lock Array, which stays untouched.
C8_SpinWaitsEnd ==
  /\ <>AllDone
  /\ \A b \in AllBlocks : (b \in Grid /\ pc[b] = "acquire") ~> (b \in Grid /\ pc[b] = "read")
  /\ [](split_factor = 1 =>
          /\ \A b \in Grid : pc[b] \in {"compute", "writeout", "done"}
          /\ \A t \in Tiles : locks[t] = 0)

\* A block that arrived before its turn is spinning.
C8_Witness ==
  \E b \in Grid : pc[b] = "acquire" /\ ~Turn(locks[b[1]], b[2])

=============================================================================
